---------------------------- MODULE Spec2Model ----------------------------
(***************************************************************************)
(* A model of fyrd's high level helpers (fyrd/helpers.py: parapply and     *)
(* parapply_summary) and of its submission scripts                         *)
(* (fyrd/submission_scripts.py: Script and Function).                      *)
(*                                                                         *)
(* Two state machines share the module:                                    *)
(*   SpecFanOut   one call of parapply / parapply_summary, stepped at its  *)
(*                program points, interleaved with the submission backend  *)
(*                finishing the submitted jobs in any order;               *)
(*   SpecArtifact the life of one Script and one Function object over a    *)
(*                small filesystem: construction, write and clean.         *)
(***************************************************************************)
EXTENDS Integers, Sequences, FiniteSets, TLC

(***************************************************************************)
(* Bounds of the model.                                                    *)
(***************************************************************************)
MaxRows == 3
MaxJobs == 3
MaxHints == 1

VARIABLES
    pc,          \* program point of the parapply call
    entry,       \* "parapply" or "parapply_summary"
    jobs,        \* the jobs argument: [isint, n]
    df,          \* the dataset: one column, a sequence of values
    func,        \* the function applied: "mean" or "double"
    merge_axis,  \* 0 or 1
    merge_apply, \* BOOLEAN
    splitCalled, \* array_split has been called
    dfs,         \* the shards, in partition order
    submitted,   \* names of the jobs submitted so far, in order (outs)
    status,      \* the backend: status of shard i's job
    reordered,   \* the backend: some job ended while an earlier shard's was pending
    awaited,     \* shard indices on which get() has been called, in order
    results,     \* the results list
    log,         \* critical log messages
    out,         \* the value returned, or NoValue
    err          \* the exception that left the call, or "none"

VARIABLES
    fs,          \* the filesystem: what each path holds
    rootmod,     \* the module inspect.getmodule finds for the function
    fnModule,    \* the __module__ attribute of the caller's function handle
    hints,       \* the caller's imports argument: [form, items]
    obj,         \* the artifact object, or NoObject before construction
    written,     \* the object's written attribute
    last         \* the last call on the artifact: [op, flag, ret, exc, again]

artVars == <<fs, rootmod, fnModule, hints, obj, written, last>>

vars == <<pc, entry, jobs, df, func, merge_axis, merge_apply, splitCalled,
          dfs, submitted, status, reordered, awaited, results, log, out, err,
          fs, rootmod, fnModule, hints, obj, written, last>>

fanVars == <<pc, entry, jobs, df, func, merge_axis, merge_apply, splitCalled,
             dfs, submitted, status, reordered, awaited, results, log, out, err>>

(***************************************************************************)
(* Values.  A cell is a rational <<numerator, denominator>>; <<0, 0>> is   *)
(* NaN.  A table is [t, v, parts]: t is its shape, v its cells in order.   *)
(*   "frame"    n rows, one column                                         *)
(*   "rowframe" one row, one column per part                               *)
(*   "series"   a labelled vector                                          *)
(*   "wide"     one column per part, each holding that part's rows at its  *)
(*              own row labels and NaN elsewhere (parts: the part sizes)   *)
(*   "wideT"    the transpose of "wide"                                    *)
(***************************************************************************)
NaN == <<0, 0>>

IsNaN(c) == c[2] = 0

Cell(n) == <<n, 1>>

RatEq(a, b) == IF IsNaN(a) \/ IsNaN(b) THEN IsNaN(a) /\ IsNaN(b)
               ELSE a[1] * b[2] = b[1] * a[2]

RatAdd(a, b) == <<a[1] * b[2] + b[1] * a[2], a[2] * b[2]>>

RECURSIVE SumCells(_)
SumCells(s) == IF s = <<>> THEN Cell(0) ELSE RatAdd(s[1], SumCells(Tail(s)))

RECURSIVE DropNaN(_)
DropNaN(s) == IF s = <<>> THEN <<>>
              ELSE IF IsNaN(s[1]) THEN DropNaN(Tail(s))
              ELSE <<s[1]>> \o DropNaN(Tail(s))

\* mean of a vector, NaN skipped; NaN when nothing is left
Mean(s) == LET k == DropNaN(s)
               t == SumCells(k)
           IN IF k = <<>> THEN NaN ELSE <<t[1], t[2] * Len(k)>>

Table(t, v, parts) == [t |-> t, v |-> v, parts |-> parts]

NoValue == Table("none", <<>>, <<>>)

RECURSIVE Flatten(_)
Flatten(ss) == IF ss = <<>> THEN <<>> ELSE ss[1] \o Flatten(Tail(ss))

\* the cells of part i of a "wide" table
RECURSIVE SumLen(_, _)
SumLen(parts, k) == IF k = 0 THEN 0 ELSE parts[k] + SumLen(parts, k - 1)

PartCells(tb, i) == SubSeq(tb.v, SumLen(tb.parts, i - 1) + 1, SumLen(tb.parts, i))

Double(c) == IF IsNaN(c) THEN NaN ELSE <<2 * c[1], c[2]>>


(***************************************************************************)
(* The tabular library, as far as parapply uses it.                        *)
(***************************************************************************)
\* numpy.array_split(df, n) for n > 0: the first (rows % n) shards get one
\* row more than the others, and the shards keep the row order.
ShardLen(rows, n, i) == (rows \div n) + (IF i <= rows % n THEN 1 ELSE 0)

ShardStart(rows, n, i) == (i - 1) * (rows \div n) + (IF i - 1 <= rows % n THEN i - 1 ELSE rows % n)

ArraySplit(d, n) ==
    [i \in 1..n |-> SubSeq(d, ShardStart(Len(d), n, i) + 1,
                              ShardStart(Len(d), n, i) + ShardLen(Len(d), n, i))]

\* DataFrame.apply(func) / Series.apply(func)
ApplyMean(tb) ==
    CASE tb.t = "frame" -> Table("series", <<Mean(tb.v)>>, <<>>)
      [] tb.t = "wide" -> Table("series", [i \in 1..Len(tb.parts) |-> Mean(PartCells(tb, i))], <<>>)
      [] OTHER -> Table("series", tb.v, <<>>)

ApplyDouble(tb) == Table(tb.t, [i \in 1..Len(tb.v) |-> Double(tb.v[i])], tb.parts)

\* _run_apply(df, func, args, pandas_kwds)
RunApply(tb, f) == IF f = "mean" THEN ApplyMean(tb) ELSE ApplyDouble(tb)

\* pandas.concat(results, axis)
Concat(rs, axis) ==
    LET cells == Flatten([i \in 1..Len(rs) |-> rs[i].v])
        sizes == [i \in 1..Len(rs) |-> Len(rs[i].v)]
    IN IF axis = 0 THEN Table(rs[1].t, cells, <<>>)
       ELSE IF rs[1].t = "series" THEN Table("rowframe", cells, <<>>)
       ELSE Table("wide", cells, sizes)

\* DataFrame.T
Transpose(tb) ==
    CASE tb.t = "frame" -> Table("rowframe", tb.v, tb.parts)
      [] tb.t = "rowframe" -> Table("frame", tb.v, tb.parts)
      [] tb.t = "wide" -> Table("wideT", tb.v, tb.parts)
      [] tb.t = "wideT" -> Table("wide", tb.v, tb.parts)
      [] OTHER -> tb

(***************************************************************************)
(* Inputs of a call.                                                       *)
(***************************************************************************)
\* the values of the cells of the datasets
Values == {0, 1}

Datasets == UNION {[1..n -> Values] : n \in 0..MaxRows}

\* the jobs argument: an integer, or a value isinstance(jobs, int) rejects
JobsArgs == {[isint |-> TRUE, n |-> k] : k \in (-1)..MaxJobs}
            \cup {[isint |-> FALSE, n |-> 0]}

Funcs == {"mean", "double"}

DataTable(d) == Table("frame", [i \in 1..Len(d) |-> Cell(d[i])], <<>>)

(***************************************************************************)
(* parapply, stepped at its program points.                                *)
(***************************************************************************)
\* the isinstance check of the jobs argument
JobsArgOk(j) == j.isint

\* array_split accepts only a positive number of sections
SplitOk(j) == j.n > 0

\* a variant: the loop stops after the first submission
SubmitDoneEarly(nsub, nshards) == nsub >= 1 \/ nsub = nshards

\* the submission loop is over once every shard has a job
SubmitDone(nsub, nshards) == nsub = nshards

\* a variant: the collection loop walks the jobs last to first
NextAwaitedReversed(k, n) == n - k

\* the shard the collection loop awaits next, after k of n were awaited
NextAwaited(k, n) == k + 1

\* results.append(out.get())
AddResult(rs, r) == Append(rs, r)

\* a variant: the handler logs and goes on with the next job
GetFailedSwallowed == "collect"

\* the except IOError handler of the collection loop: log, then raise
GetFailedPc == "raised"


NoError == [type |-> "none", at |-> "none"]

Error(type, at) == [type |-> type, at |-> at]

\* '{}_{}_of_{}'.format(name, count, jobs)
JobName(count, j) == [count |-> count, of |-> j.n]

\* what the job of shard i computes remotely: sub_func(d, func, args, pandas_kwds)
JobResult(i) == RunApply(DataTable(dfs[i]), func)

InitFan ==
    /\ pc = "idle"
    /\ entry = "parapply"
    /\ jobs = [isint |-> TRUE, n |-> 1]
    /\ df = <<>>
    /\ func = "double"
    /\ merge_axis = 0
    /\ merge_apply = FALSE
    /\ splitCalled = FALSE
    /\ dfs = <<>>
    /\ submitted = <<>>
    /\ status = <<>>
    /\ reordered = FALSE
    /\ awaited = <<>>
    /\ results = <<>>
    /\ log = <<>>
    /\ out = NoValue
    /\ err = NoError

\* The call, up to the end of argument handling.  parapply_summary calls
\* parapply with merge_axis=1 and without merge_apply.
Call(e, j, d, f, ax, ma) ==
    /\ pc = "idle"
    /\ entry' = e
    /\ jobs' = j
    /\ df' = d
    /\ func' = f
    /\ merge_axis' = (IF e = "parapply_summary" THEN 1 ELSE ax)
    /\ merge_apply' = (IF e = "parapply_summary" THEN FALSE ELSE ma)
    /\ IF JobsArgOk(j)
       THEN pc' = "split" /\ err' = err
       ELSE pc' = "raised" /\ err' = Error("ValueError", "jobs")
    /\ UNCHANGED <<splitCalled, dfs, submitted, status, reordered, awaited, results, log, out>>
    /\ UNCHANGED artVars

\* dfs = array_split(df, jobs), and the set-up that follows it
Split ==
    /\ pc = "split"
    /\ splitCalled' = TRUE
    /\ IF SplitOk(jobs)
       THEN /\ dfs' = ArraySplit(df, jobs.n)
            /\ status' = [i \in 1..jobs.n |-> "unsubmitted"]
            /\ pc' = "submit"
            /\ err' = err
       ELSE /\ pc' = "raised"
            /\ err' = Error("ValueError", "array_split")
            /\ UNCHANGED <<dfs, status>>
    /\ UNCHANGED <<entry, jobs, df, func, merge_axis, merge_apply, submitted,
                   reordered, awaited, results, log, out>>
    /\ UNCHANGED artVars

\* one round of the submission loop: build the job of the next shard, submit it
SubmitOne ==
    /\ pc = "submit"
    /\ ~SubmitDone(Len(submitted), Len(dfs))
    /\ LET count == Len(submitted) + 1
       IN /\ submitted' = Append(submitted, JobName(count, jobs))
          /\ status' = [status EXCEPT ![count] = "pending"]
    /\ UNCHANGED <<pc, entry, jobs, df, func, merge_axis, merge_apply, splitCalled,
                   dfs, reordered, awaited, results, log, out, err>>
    /\ UNCHANGED artVars

\* the submission loop ends, the collection loop starts
SubmitEnd ==
    /\ pc = "submit"
    /\ SubmitDone(Len(submitted), Len(dfs))
    /\ pc' = "collect"
    /\ UNCHANGED <<entry, jobs, df, func, merge_axis, merge_apply, splitCalled,
                   dfs, submitted, status, reordered, awaited, results, log, out, err>>
    /\ UNCHANGED artVars

\* one round of the collection loop: out.get() is called and blocks
GetCall ==
    /\ pc = "collect"
    /\ Len(awaited) < Len(submitted)
    /\ awaited' = Append(awaited, NextAwaited(Len(awaited), Len(submitted)))
    /\ pc' = "waiting"
    /\ UNCHANGED <<entry, jobs, df, func, merge_axis, merge_apply, splitCalled,
                   dfs, submitted, status, reordered, results, log, out, err>>
    /\ UNCHANGED artVars

\* out.get() returns the result of the job
GetReturn ==
    /\ pc = "waiting"
    /\ status[awaited[Len(awaited)]] = "done"
    /\ results' = AddResult(results, JobResult(awaited[Len(awaited)]))
    /\ pc' = "collect"
    /\ UNCHANGED <<entry, jobs, df, func, merge_axis, merge_apply, splitCalled,
                   dfs, submitted, status, reordered, awaited, log, out, err>>
    /\ UNCHANGED artVars

\* out.get() raises IOError: logged as critical, raised again
GetRaise ==
    /\ pc = "waiting"
    /\ status[awaited[Len(awaited)]] = "failed"
    /\ log' = Append(log, "Result getting failed")
    /\ err' = Error("IOError", "get")
    /\ pc' = GetFailedPc
    /\ UNCHANGED <<entry, jobs, df, func, merge_axis, merge_apply, splitCalled,
                   dfs, submitted, status, reordered, awaited, results, out>>
    /\ UNCHANGED artVars

\* the value parapply returns: the concatenation, applied to again if asked
Merged(rs, ax, ma, f) ==
    IF ma THEN RunApply(Concat(rs, ax), f) ELSE Concat(rs, ax)

\* the second pass of parapply_summary: transpose, run the function again
SummaryPass(tb, f) == RunApply(Transpose(tb), f)

\* concatenation and return
Merge ==
    /\ pc = "collect"
    /\ Len(awaited) = Len(submitted)
    /\ out' = (IF entry = "parapply_summary"
               THEN SummaryPass(Merged(results, merge_axis, merge_apply, func), func)
               ELSE Merged(results, merge_axis, merge_apply, func))
    /\ pc' = "returned"
    /\ UNCHANGED <<entry, jobs, df, func, merge_axis, merge_apply, splitCalled,
                   dfs, submitted, status, reordered, awaited, results, log, err>>
    /\ UNCHANGED artVars

\* the backend finishes a submitted job, successfully or not, in any order
BackendFinish(i, how) ==
    /\ status[i] = "pending"
    /\ status' = [status EXCEPT ![i] = how]
    /\ reordered' = (reordered \/ \E j \in 1..(i - 1) : status[j] = "pending")
    /\ UNCHANGED <<pc, entry, jobs, df, func, merge_axis, merge_apply, splitCalled,
                   dfs, submitted, awaited, results, log, out, err>>
    /\ UNCHANGED artVars

NextFan ==
    \/ \E e \in {"parapply", "parapply_summary"}, j \in JobsArgs, d \in Datasets,
          f \in Funcs, ax \in {0, 1}, ma \in BOOLEAN : Call(e, j, d, f, ax, ma)
    \/ Split
    \/ SubmitOne
    \/ SubmitEnd
    \/ GetCall
    \/ GetReturn
    \/ GetRaise
    \/ Merge
    \/ \E i \in DOMAIN status, how \in {"done", "failed"} : BackendFinish(i, how)


(***************************************************************************)
(* Function.__init__: the imports of the driver script.                    *)
(*                                                                         *)
(* A dotted module name is the sequence of its components.  An entry of    *)
(* the imports list is [k, verb, alias, mod]:                              *)
(*   k = "name"  a plain name given by the caller, such as 'numpy'         *)
(*   k = "stmt"  statement text given by the caller: verb is its first     *)
(*               word; 'from a import b' has mod = <<a, b>>                *)
(*   k = "pair"  a tuple (alias, module name) the constructor adds         *)
(* A rendered statement is [verb, pkg, name, alias, raw]: raw marks        *)
(* caller's text taken as it is (it ends without the newline the           *)
(* constructor's own statements end with, so the two never compare equal). *)
(***************************************************************************)
NameEntry(n) == [k |-> "name", verb |-> "", alias |-> "", mod |-> n]

StmtEntry(verb, m) == [k |-> "stmt", verb |-> verb, alias |-> "", mod |-> m]

PairEntry(alias, m) == [k |-> "pair", verb |-> "", alias |-> alias, mod |-> m]

Stmt(verb, pkg, name, alias, raw) ==
    [verb |-> verb, pkg |-> pkg, name |-> name, alias |-> alias, raw |-> raw]

\* the names the model uses that start with '@'
StartsWithAt(n) == n \in {"@private"}

\* the names the model uses that start with '__'
StartsWithDunder(n) == n \in {"__main__", "__builtins__"}

\* ignore_list
IgnoreList == {"os", "sys", "dill", "pickle"}

\* the module the try/except import at the top of the file binds to _pickle
PickleModule == <<"dill">>

\* the modules in globals() of fyrd/submission_scripts.py, as (name, module)
GlobalModules ==
    << PairEntry("_inspect", <<"inspect">>),
       PairEntry("_logme", <<"fyrd", "logme">>),
       PairEntry("_os", <<"os">>),
       PairEntry("_pickle", PickleModule),
       PairEntry("_run", <<"fyrd", "run">>),
       PairEntry("_sys", <<"sys">>) >>

\* what the caller may pass as one element of imports
HintItems == { NameEntry(<<"numpy">>), NameEntry(<<"os">>),
               NameEntry(<<"@private">>), StmtEntry("import", <<"os">>),
               StmtEntry("from", <<"numpy", "mean">>) }

HintLists == UNION {[1..n -> HintItems] : n \in 0..MaxHints}

\* the imports argument: absent, one string, a list or a tuple
HintValues ==
    {[form |-> "none", items |-> <<>>]}
    \cup {[form |-> "str", items |-> <<h>>] : h \in HintItems}
    \cup {[form |-> f, items |-> l] : f \in {"list", "tuple"}, l \in HintLists}

\* the modules a root module may hold as members, sorted by member name
MemberUniverse ==
    << PairEntry("__builtins__", <<"builtins">>),
       PairEntry("np", <<"numpy">>),
       PairEntry("os", <<"os">>),
       PairEntry("path", <<"os", "path">>) >>

RECURSIVE Pick(_, _)
Pick(s, keep) == IF s = <<>> THEN <<>>
                 ELSE (IF s[1] \in keep THEN <<s[1]>> ELSE <<>>) \o Pick(Tail(s), keep)

Range(s) == {s[i] : i \in DOMAIN s}

MemberLists == {Pick(MemberUniverse, k) : k \in SUBSET Range(MemberUniverse)}

\* a root module: its __name__, whether it has __file__, the file's stem
RootModule(name, hasfile, stem, members) ==
    [name |-> name, hasfile |-> hasfile, stem |-> stem, members |-> members]

RootModules ==
    {RootModule(<<"__main__">>, TRUE, "script", m) : m \in MemberLists}
    \cup {RootModule(<<"mymod">>, TRUE, "mymod", m) : m \in MemberLists}
    \cup {RootModule(<<"pkg", "mymod">>, TRUE, "mymod", m) : m \in MemberLists}
    \cup {RootModule(<<"__main__">>, FALSE, "", <<>>),
          RootModule(<<"math">>, FALSE, "", <<>>)}

\* function.__name__
FunctionName == "f"

\* impt: the stem of the module's file, or None ("")
Impt(rm) == IF rm.hasfile THEN rm.stem ELSE ""

\* the clobbering of function.__module__
Clobbered(rm, fmod) ==
    IF Impt(rm) # "" /\ fmod = <<"__main__">> THEN <<Impt(rm)>> ELSE fmod

NoStmt == Stmt("", <<>>, "", "", FALSE)

\* imp1, imp2 and bimp1, bimp2 of the three branches; bound tells whether
\* the branch taken assigns bimp1 at all
ModuleImports(rm) ==
    IF Impt(rm) # ""
    THEN [imp1 |-> Stmt("from", <<Impt(rm)>>, FunctionName, "", FALSE),
          imp2 |-> Stmt("from", <<Impt(rm)>>, "*", "", FALSE),
          bound |-> TRUE,
          bimp1 |-> IF <<Impt(rm)>> # rm.name
                    THEN Stmt("from", rm.name, FunctionName, "", FALSE) ELSE NoStmt,
          bimp2 |-> IF <<Impt(rm)>> # rm.name
                    THEN Stmt("from", rm.name, "*", "", FALSE) ELSE NoStmt,
          up |-> IF <<Impt(rm)>> # rm.name THEN Len(rm.name) - 1 ELSE 0]
    ELSE IF rm.name # <<FunctionName>> /\ rm.name # <<"__main__">>
    THEN [imp1 |-> Stmt("from", rm.name, FunctionName, "", FALSE),
          imp2 |-> Stmt("from", rm.name, "*", "", FALSE),
          bound |-> FALSE, bimp1 |-> NoStmt, bimp2 |-> NoStmt, up |-> 0]
    ELSE [imp1 |-> Stmt("import", <<FunctionName>>, "", "", FALSE),
          imp2 |-> NoStmt,
          bound |-> FALSE, bimp1 |-> NoStmt, bimp2 |-> NoStmt, up |-> 0]

\* "if bimp1:" reads a name only the first branch assigns
ModstrRaises(rm) == ~ModuleImports(rm).bound

\* "if imports:" is true of a non-empty string, list or tuple
Truthy(h) == h.form # "none" /\ h.items # <<>>

\* whether the list the constructor works on is the caller's own object
Aliased(h) == Truthy(h) /\ h.form \in {"list", "tuple"}

\* the entries added from globals(): name == '__main__' or no leading '__'
GlobalEntries ==
    Pick(GlobalModules, {e \in Range(GlobalModules) :
                           e.alias = "__main__" \/ ~StartsWithDunder(e.alias)})

\* the entries added from the root module's members
MemberEntries(rm) ==
    IF rm.hasfile
    THEN Pick(rm.members, {e \in Range(rm.members) : ~StartsWithDunder(e.alias)})
    ELSE <<>>

\* imports.append on a tuple raises AttributeError
AppendRaises(h) == Aliased(h) /\ h.form = "tuple" /\ GlobalEntries # <<>>

\* the list after the two additions
WorkingItems(rm, h) ==
    (IF Truthy(h) THEN h.items ELSE <<>>) \o GlobalEntries \o MemberEntries(rm)

\* what the caller's imports object holds after the constructor
HintsAfter(rm, h) ==
    IF Aliased(h) /\ h.form = "list"
    THEN [h EXCEPT !.items = WorkingItems(rm, h)]
    ELSE h

\* whether the filter drops a tuple entry on its alias
PairIgnored(e) == e.alias \in IgnoreList

\* one entry, filtered and rendered: the set of statements it adds
Render(e) ==
    IF e.k = "pair"
    THEN IF PairIgnored(e) THEN {}
         ELSE IF StartsWithAt(e.mod[1]) \/ StartsWithAt(e.alias) THEN {}
         ELSE IF <<e.alias>> # e.mod
              THEN IF Len(e.mod) > 1
                   THEN IF ~(Len(e.mod) = 2 /\ e.mod[2] = e.alias)
                        THEN {Stmt("from", SubSeq(e.mod, 1, Len(e.mod) - 1),
                                   e.mod[Len(e.mod)], e.alias, FALSE)}
                        ELSE {Stmt("from", <<e.mod[1]>>, e.mod[2], "", FALSE)}
                   ELSE {Stmt("import", e.mod, "", e.alias, FALSE)}
              ELSE {Stmt("import", e.mod, "", "", FALSE)}
    ELSE IF e.k = "name" /\ Len(e.mod) = 1 /\ e.mod[1] \in IgnoreList THEN {}
    ELSE IF e.k = "stmt"
         THEN IF e.verb = "from"
              THEN {Stmt("from", SubSeq(e.mod, 1, Len(e.mod) - 1),
                         e.mod[Len(e.mod)], "", TRUE)}
              ELSE {Stmt("import", e.mod, "", "", TRUE)}
    ELSE IF StartsWithAt(e.mod[1]) THEN {}
    ELSE {Stmt("import", e.mod, "", "", FALSE)}

\* filtered_imports, as the set line 256 makes of it
FilteredImports(rm, h) == UNION {Render(e) : e \in Range(WorkingItems(rm, h))}


(***************************************************************************)
(* Script and Function objects over the filesystem.                        *)
(***************************************************************************)
\* the paths of the one artifact: file_name, pickle_file and outfile
ScriptPath == "job"

PicklePath == "job.pickle.in"

OutPath == "job.pickle.out"

Paths == {ScriptPath, PicklePath, OutPath}

\* what a path holds: nothing, a file some other program wrote, the script
\* text, the pickled (function, args), the result the driver script wrote
Absent == "absent"

Exists(fsys, p) == fsys[p] # Absent

NoObject ==
    [kind |-> "none", file_name |-> "", pickle_file |-> "", outfile |-> "",
     modstr |-> ModuleImports(RootModule(<<"mymod">>, TRUE, "mymod", <<>>)),
     impts |-> {}]

\* Script.__init__
NewScriptObject(file_name) ==
    [NoObject EXCEPT !.kind = "Script", !.file_name = file_name]

\* Function.__init__, when nothing raises
NewFunctionObject(file_name, rm, h) ==
    [kind |-> "Function", file_name |-> file_name,
     pickle_file |-> PicklePath, outfile |-> OutPath,
     modstr |-> ModuleImports(rm), impts |-> FilteredImports(rm, h)]

NoCall == [op |-> "none", flag |-> FALSE, ret |-> "None", exc |-> "none", again |-> FALSE]

CallRecord(op, flag, ret, exc, again) ==
    [op |-> op, flag |-> flag, ret |-> ret, exc |-> exc, again |-> again]

\* Script.write: the condition under which the file is written
WriteTakes(overwrite, exists) == overwrite \/ ~exists

\* a variant: the file is removed whenever it exists
CleanTakesAnyFile(w, exists) == exists

\* Script.clean: the condition under which the file is removed
CleanTakes(w, exists) == w /\ exists

\* Script.write(overwrite) on the filesystem fsys
ScriptWriteFs(fsys, path, overwrite) ==
    IF WriteTakes(overwrite, Exists(fsys, path))
    THEN [fsys EXCEPT ![path] = "script"] ELSE fsys

ScriptWriteWritten(fsys, path, overwrite, w) ==
    IF WriteTakes(overwrite, Exists(fsys, path)) THEN TRUE ELSE w

ScriptWriteRet(fsys, path, overwrite) ==
    IF WriteTakes(overwrite, Exists(fsys, path)) THEN path ELSE "None"

\* Script.clean() on the filesystem fsys
ScriptCleanFs(fsys, path, w) ==
    IF CleanTakes(w, Exists(fsys, path)) THEN [fsys EXCEPT ![path] = Absent] ELSE fsys

\* Function.write returns what its last statement leaves: nothing
FunctionWriteRet(fsys, path, overwrite) == "None"

\* Function.clean: the removals guarded by self.written
FunctionCleanFs(fsys, o, w, delete_output) ==
    IF w
    THEN [p \in Paths |->
            IF p = o.pickle_file /\ Exists(fsys, p) THEN Absent
            ELSE IF p = o.outfile /\ delete_output /\ Exists(fsys, p) THEN Absent
            ELSE fsys[p]]
    ELSE fsys

ArtIdle ==
    /\ fs = [p \in Paths |-> Absent]
    /\ rootmod = RootModule(<<"mymod">>, TRUE, "mymod", <<>>)
    /\ fnModule = <<"mymod">>
    /\ hints = [form |-> "none", items |-> <<>>]
    /\ obj = NoObject
    /\ written = FALSE
    /\ last = NoCall

\* the caller's state before it builds an artifact: the script path may
\* hold a file already
InitArt ==
    /\ fs \in {[p \in Paths |-> IF p = ScriptPath THEN c ELSE Absent] : c \in {Absent, "foreign"}}
    /\ rootmod \in RootModules
    /\ fnModule = rootmod.name
    /\ hints \in HintValues
    /\ obj = NoObject
    /\ written = FALSE
    /\ last = NoCall

\* Script(file_name, script)
NewScript ==
    /\ obj = NoObject
    /\ obj' = NewScriptObject(ScriptPath)
    /\ last' = CallRecord("Script", FALSE, "self", "none", FALSE)
    /\ UNCHANGED <<fs, rootmod, fnModule, hints, written>>
    /\ UNCHANGED fanVars

\* Function(file_name, function, args, imports): the constructor raises at
\* "if bimp1" or at imports.append, or builds the object.  A behaviour
\* follows one construction: the call is the first on the artifact.
NewFunction ==
    /\ obj = NoObject
    /\ last.op = "none"
    /\ fnModule' = Clobbered(rootmod, fnModule)
    /\ IF ModstrRaises(rootmod)
       THEN /\ last' = CallRecord("Function", FALSE, "None", "UnboundLocalError", FALSE)
            /\ UNCHANGED <<hints, obj>>
       ELSE IF AppendRaises(hints)
       THEN /\ last' = CallRecord("Function", FALSE, "None", "AttributeError", FALSE)
            /\ UNCHANGED <<hints, obj>>
       ELSE /\ hints' = HintsAfter(rootmod, hints)
            /\ obj' = NewFunctionObject(ScriptPath, rootmod, hints)
            /\ last' = CallRecord("Function", FALSE, "self", "none", FALSE)
    /\ UNCHANGED <<fs, rootmod, written>>
    /\ UNCHANGED fanVars

\* Script.write(overwrite) on a Script object
ScriptWrite(overwrite) ==
    /\ obj.kind = "Script"
    /\ fs' = ScriptWriteFs(fs, obj.file_name, overwrite)
    /\ written' = ScriptWriteWritten(fs, obj.file_name, overwrite, written)
    /\ last' = CallRecord("write", overwrite,
                          ScriptWriteRet(fs, obj.file_name, overwrite), "none", FALSE)
    /\ UNCHANGED <<rootmod, fnModule, hints, obj>>
    /\ UNCHANGED fanVars

\* Script.clean() on a Script object
ScriptClean ==
    /\ obj.kind = "Script"
    /\ fs' = ScriptCleanFs(fs, obj.file_name, written)
    /\ last' = CallRecord("clean", FALSE, "None", "none", last.op = "clean")
    /\ UNCHANGED <<rootmod, fnModule, hints, obj, written>>
    /\ UNCHANGED fanVars

\* Function.write(overwrite): dump the pickle, then Script.write
FunctionWrite(overwrite) ==
    /\ obj.kind = "Function"
    /\ LET dumped == [fs EXCEPT ![obj.pickle_file] = "payload"]
       IN /\ fs' = ScriptWriteFs(dumped, obj.file_name, overwrite)
          /\ written' = ScriptWriteWritten(dumped, obj.file_name, overwrite, written)
          /\ last' = CallRecord("write", overwrite,
                                FunctionWriteRet(dumped, obj.file_name, overwrite),
                                "none", FALSE)
    /\ UNCHANGED <<rootmod, fnModule, hints, obj>>
    /\ UNCHANGED fanVars

\* Function.clean(delete_output): the pickle files, then Script.clean
FunctionClean(delete_output) ==
    /\ obj.kind = "Function"
    /\ fs' = ScriptCleanFs(FunctionCleanFs(fs, obj, written, delete_output),
                           obj.file_name, written)
    /\ last' = CallRecord("clean", delete_output, "None", "none", last.op = "clean")
    /\ UNCHANGED <<rootmod, fnModule, hints, obj, written>>
    /\ UNCHANGED fanVars

\* the driver script runs somewhere and leaves its output file
DriverRuns ==
    /\ obj.kind = "Function"
    /\ fs[obj.file_name] = "script"
    /\ fs[obj.pickle_file] = "payload"
    /\ fs[obj.outfile] # "result"
    /\ fs' = [fs EXCEPT ![obj.outfile] = "result"]
    /\ UNCHANGED <<rootmod, fnModule, hints, obj, written, last>>
    /\ UNCHANGED fanVars

NextArt ==
    \/ NewScript
    \/ NewFunction
    \/ \E overwrite \in BOOLEAN : ScriptWrite(overwrite)
    \/ ScriptClean
    \/ \E overwrite \in BOOLEAN : FunctionWrite(overwrite)
    \/ \E delete_output \in BOOLEAN : FunctionClean(delete_output)
    \/ DriverRuns

InitFanOut == InitFan /\ ArtIdle

InitArtifact == InitFan /\ InitArt

SpecFanOut == InitFanOut /\ [][NextFan]_vars

SpecArtifact == InitArtifact /\ [][NextArt]_vars


(***************************************************************************)
(* Properties of parapply (checked under SpecFanOut).                      *)
(***************************************************************************)
\* get() on shard i has been called and has raised
GetFailed(i) ==
    /\ \E k \in DOMAIN awaited : awaited[k] = i
    /\ status[i] = "failed"
    /\ ~(pc = "waiting" /\ awaited[Len(awaited)] = i)

\* C1: once awaiting shard i has failed, the call has raised the failure
\* (logged as critical), shard i is the last one awaited, and nothing, merged
\* or partial, is returned.
C1_FailurePropagates ==
    \A i \in DOMAIN status :
        GetFailed(i) =>
            /\ pc = "raised"
            /\ err = Error("IOError", "get")
            /\ log # <<>>
            /\ awaited[Len(awaited)] = i
            /\ out = NoValue

\* C1 witness: a shard failed after an earlier result was collected and
\* while later shards were still to be awaited.
C1_Witness ==
    \E i \in DOMAIN status :
        /\ GetFailed(i)
        /\ Len(results) >= 1
        /\ i < Len(submitted)

\* C2: whenever a result has been awaited, every shard of the partition has
\* been submitted: one job per shard, jobs of them, none left unsubmitted.
C2_SubmitBeforeAwait ==
    awaited # <<>> =>
        /\ Len(submitted) = Len(dfs)
        /\ Len(submitted) = jobs.n
        /\ \A i \in DOMAIN status : status[i] # "unsubmitted"

\* C2 witness: the first get() is blocked on a pending job of a call with
\* several shards.
C2_Witness ==
    /\ pc = "waiting"
    /\ awaited = <<1>>
    /\ jobs.n >= 2
    /\ status[1] = "pending"

\* C3: the k-th get() is on shard k, the k-th result is the result of shard
\* k, and a plain concatenation of an element-wise function (axis 0, no
\* second pass) equals the function applied to the unsplit dataset.
C3_ShardOrderKept ==
    /\ \A k \in DOMAIN awaited : awaited[k] = k
    /\ \A k \in DOMAIN results : results[k] = JobResult(k)
    /\ (pc = "returned" /\ entry = "parapply" /\ func = "double"
        /\ merge_axis = 0 /\ ~merge_apply)
       => out = RunApply(DataTable(df), func)

\* C3 witness: the call returned although the backend finished another
\* shard before the first one, and the first two results differ.
C3_Witness ==
    /\ pc = "returned"
    /\ Len(results) >= 2
    /\ reordered
    /\ results[1] # results[2]
    /\ func = "double"
    /\ merge_axis = 0
    /\ ~merge_apply

\* C4, as claimed: with a jobs argument that is not a positive integer,
\* array_split is never called and nothing is submitted.
C4_RejectedBeforeSplit ==
    ~(jobs.isint /\ jobs.n > 0) => (~splitCalled /\ submitted = <<>>)

\* C5, as claimed: a call with the second pass and the column mean returns
\* one value per column, the mean of the unsplit column.
C5_MeanOfUnsplit ==
    (pc = "returned" /\ func = "mean"
     /\ (entry = "parapply_summary" \/ merge_apply))
    => (Len(out.v) = 1 /\ RatEq(out.v[1], Mean(DataTable(df).v)))


(***************************************************************************)
(* Properties of Script and Function (checked under SpecArtifact).         *)
(***************************************************************************)
\* a step that is a call of write on the artifact
WriteStep == \E overwrite \in BOOLEAN : ScriptWrite(overwrite) \/ FunctionWrite(overwrite)

\* C6, as claimed: write(overwrite=False) on an existing path changes no
\* file, leaves written alone and returns None; any other write puts the
\* script at the path, sets written and returns the path.
C6_WriteContract ==
    [][WriteStep =>
        IF ~last'.flag /\ Exists(fs, obj.file_name)
        THEN fs' = fs /\ written' = written /\ last'.ret = "None"
        ELSE fs'[obj.file_name] = "script" /\ written' /\ last'.ret = obj.file_name]_vars

\* C7: Script.clean() raises nothing, never changes written, removes nothing
\* but the backing file and only when the object is written and the file
\* exists; on a never-written object, and when the call before it was a
\* clean too, it leaves the filesystem as it was.
C7_CleanIdempotent ==
    [][ScriptClean =>
        /\ last'.exc = "none"
        /\ written' = written
        /\ \A p \in Paths : p # obj.file_name => fs'[p] = fs[p]
        /\ fs'[obj.file_name] =
             (IF written /\ Exists(fs, obj.file_name) THEN Absent ELSE fs[obj.file_name])
        /\ (~written \/ last.op = "clean") => fs' = fs]_vars

\* C7 witness: a written Script whose file was removed by a first clean has
\* been cleaned a second time in a row.
C7_Witness ==
    /\ obj.kind = "Script"
    /\ written
    /\ last.op = "clean"
    /\ last.again
    /\ ~Exists(fs, obj.file_name)

\* C8, as claimed: the constructor of Function never raises.
C8_ConstructorNeverRaises ==
    last.op = "Function" => last.exc = "none"

\* a statement that imports a module of the ignore list
ImportsIgnored(s) == s.verb = "import" /\ Len(s.pkg) = 1 /\ s.pkg[1] \in IgnoreList

\* C9, as claimed: no statement of the rendered imports imports os, sys,
\* dill or pickle.
C9_NoIgnoredImport ==
    obj.kind = "Function" => \A s \in obj.impts : ~ImportsIgnored(s)

\* C10, as claimed: constructing a Function changes no file, nor the
\* function handle, nor the caller's imports object.
C10_ConstructorPure ==
    [][NewFunction => (fs' = fs /\ fnModule' = fnModule /\ hints' = hints)]_vars

\* a step that is a call of clean on a Function object
FunctionCleanStep == \E delete_output \in BOOLEAN : FunctionClean(delete_output)

\* C11, as claimed: a clean of a Function whose write calls left the pickle
\* file at pickle_file leaves no such file, and changes the output file only
\* when delete_output is true.
C11_CleanRemovesPayload ==
    [][(FunctionCleanStep /\ fs[obj.pickle_file] = "payload") =>
        /\ ~Exists(fs', obj.pickle_file)
        /\ (fs'[obj.outfile] # fs[obj.outfile] => last'.flag)]_vars

=============================================================================
